---- MODULE Spec2Model ----
(***************************************************************************)
(* cli_gets (src/cli_gets.h): a raw-mode line editor.  The model follows   *)
(* one call of cli_gets.  A step is one blocking getchar() together with   *)
(* everything the function does until the next getchar(): the dispatch on  *)
(* the byte, the edit of buf, the redraw, the loop test and, when the loop *)
(* ends on a carriage return, the finalisation and the return.             *)
(*                                                                         *)
(* buf is modelled as the memory around the caller's buffer: the cells     *)
(* 0..blen-1 are the buffer, the cells outside are the adjacent memory an  *)
(* out-of-range index of the function lands in.  Cells the function has    *)
(* not written hold an arbitrary (junk) byte chosen in Init.               *)
(***************************************************************************)
EXTENDS Integers, Sequences, FiniteSets, TLC

\* ---------------------------------------------------------------- bounds
\* largest blen of a call
MaxBlen == 6
\* most bytes one call reads from the input
MaxReads == 11

\* ------------------------------------------------------- program bytes
CtrlC == 3
CtrlZ == 26
ESC == 27
CSI == 91
DEL == 127
CR == 13
NUL == 0
SPACE == 32
KeyUp == 65
KeyDown == 66
KeyRight == 67
KeyLeft == 68
KeyHome == 49
KeyDelete == 51
KeyEnd == 52

\* literal bytes offered at the top of the loop: the letters "A" and "B"
Lit == {65, 66}
\* bytes getchar() may return at the top of the loop and in the drain loop
TopBytes == Lit \cup {CtrlC, CtrlZ, ESC, DEL, CR}
\* bytes getchar() may return for the second byte of an escape sequence
Esc2Bytes == {CSI, CtrlC, KeyUp}
\* bytes getchar() may return for the third byte of an escape sequence
Esc3Bytes == {KeyUp, KeyDown, KeyRight, KeyLeft, KeyHome, KeyDelete, KeyEnd, CtrlC, CR}
\* bytes getchar() may return for the discarded trailing byte
DummyBytes == {126, CtrlC}
\* contents of the memory the function has not written yet
JunkBytes == {NUL, SPACE}
\* lines the history callback may put into buf: "B" and "BA"
HistEntries == {<<66>>, <<66, 65>>}

\* memory cells modelled around buf
MemLo == 0 - 1
MemHi == 2 * MaxBlen - 1
Mem == MemLo..MemHi

VARIABLES
    buf,        \* memory at and around the caller's buffer, index -> byte
    blen,       \* size of the caller's buffer
    history_cb, \* TRUE when a callback was passed, FALSE for NULL
    len, off, pad,  \* the function's counters
    b,          \* the function's variable b: the byte of the current event
    b2, b3,     \* continuation bytes of an escape sequence, 0 outside one
    got,        \* the byte the last getchar() returned
    pc,         \* "read", "esc2", "esc3", "dummy", "drain", "returned", "exited"
    trace,      \* terminal and process operations performed, in order
    printed,    \* characters of buf printed by the last redraw
    moved,      \* columns of the cursor-left sequence of the last redraw
    wr,         \* indices of buf written by the function in the last step
    cbRes,      \* what the callback did in the last step
    nread,      \* number of getchar() calls made so far
    ev,         \* the event the last step completed
    typed,      \* the literal bytes read so far while the edit loop read
                \* nothing else, else NotTyping
    drawn,      \* TRUE when the last step ran the redraw of lines 172-176
    crOff,      \* value of off when the carriage return was read, else 0
    before      \* the line before the last erase-backward, when it was done
                \* with the cursor at the end and was the last step or the
                \* step before a literal that was the last step, else NoErase

vars == <<buf, blen, history_cb, len, off, pad, b, b2, b3, got, pc, trace,
          printed, moved, wr, cbRes, nread, ev, typed, drawn, crOff, before>>

\* ------------------------------------------------------------ helpers
\* buf[i] = v
Store(m, i, v) == IF i \in Mem THEN [m EXCEPT ![i] = v] ELSE m

\* strlen(buf): index of the first terminator
strlen(m) ==
    IF \E i \in 0..MemHi : m[i] = NUL
    THEN CHOOSE i \in 0..MemHi : m[i] = NUL /\ \A j \in 0..(i - 1) : m[j] # NUL
    ELSE MemHi + 1

\* the first n bytes of buf, as a sequence
Content(m, n) == [i \in 1..n |-> m[i - 1]]

\* `len < blen` of the loop test: int against size_t, the int is converted
\* to unsigned, so a negative len compares as a huge value
LoopTest(l, n) == IF l < 0 THEN FALSE ELSE l < n

\* ------------------------------------------------- buffer editing (pure)
\* an edit result: the new memory, counters and the indices written
Edit(m, l, o, p, w) == [buf |-> m, len |-> l, off |-> o, pad |-> p, wr |-> w]

\* for (i = from; i < to; i++) buf[i] = buf[i + 1];
ShiftLeft(m, from, to) ==
    [i \in Mem |-> IF i >= from /\ i < to /\ (i + 1) \in Mem THEN m[i + 1] ELSE m[i]]

\* for (i = from; i > to; i--) buf[i] = buf[i - 1];
ShiftRight(m, from, to) ==
    [i \in Mem |-> IF i <= from /\ i > to /\ (i - 1) \in Mem THEN m[i - 1] ELSE m[i]]

\* left arrow: off++; if (off > len) off = len;
MoveLeft(l, o) == IF o + 1 > l THEN l ELSE o + 1

\* right arrow: off--; if (off < 0) off = 0;
MoveRight(o) == IF o - 1 < 0 THEN 0 ELSE o - 1

\* home: off = -len;
MoveHome(l) == 0 - l

\* end: off = 0;
MoveEnd(l) == 0

\* delete key (erase forward)
EraseForward(m, l, o, p) ==
    IF o > 0
    THEN Edit(Store(ShiftLeft(m, l - o, l - 1), l - 1, SPACE), l - 1, o - 1, p + 1,
              ((l - o)..(l - 2)) \cup {l - 1})
    ELSE Edit(m, l, o, p, {})

\* EraseBackward without the len--
EraseBackward_KeepLen(m, l, o, p) ==
    IF l - o > 0
    THEN Edit(Store(ShiftLeft(m, l - o - 1, l - 1), l - 1, SPACE), l, o, p + 1,
              ((l - o - 1)..(l - 2)) \cup {l - 1})
    ELSE Edit(m, l, o, p, {})

\* backspace (erase backward)
EraseBackward(m, l, o, p) ==
    IF l - o > 0
    THEN Edit(Store(ShiftLeft(m, l - o - 1, l - 1), l - 1, SPACE), l - 1, o, p + 1,
              ((l - o - 1)..(l - 2)) \cup {l - 1})
    ELSE Edit(m, l, o, p, {})

\* Insert without the loop that shifts the tail to the right
Insert_NoShift(m, l, o, p, c) ==
    Edit(Store(Store(m, l - o, c), l + 1, NUL), l + 1, o, 0, {l - o, l + 1})

\* default case: insert byte c at the cursor
Insert(m, l, o, p, c) ==
    LET shifted == IF o # 0 THEN ShiftRight(m, l, l - o) ELSE m
        shiftWr == IF o # 0 THEN (l - o + 1)..l ELSE {}
    IN  Edit(Store(Store(shifted, l - o, c), l + 1, NUL), l + 1, o, 0,
             shiftWr \cup {l - o, l + 1})

\* what the callback leaves in buf when it has a line h to give
Recall(m, h) ==
    [i \in Mem |-> IF i >= 0 /\ i < Len(h) THEN h[i + 1]
                   ELSE IF i = Len(h) THEN NUL ELSE m[i]]

\* after history_cb returned: len = strlen(buf); off = 0; pad = 0;
AfterHistory(m) == Edit(m, strlen(m), 0, 0, {})

\* NoCallback with the counters reset as after a callback
NoCallback_Reset(m, l, o, p) == Edit(m, strlen(m), 0, 0, {})

\* up or down arrow when history_cb is NULL: nothing is done
NoCallback(m, l, o, p) == Edit(m, l, o, p, {})

\* ReturnOff leaving the cursor where it is
ReturnOff_Keep(o) == o

\* case 0xD: off = 0;
ReturnOff(o) == 0

\* Ignored taking the last branch of the chain, the one of the end key
Ignored_AsEnd(m, l, o, p) == Edit(m, l, 0, p, {})

\* an escape sequence no branch of lines 88-132 recognises: nothing is done
Ignored(m, l, o, p) == Edit(m, l, o, p, {})

\* DrainDone ending the drain loop at any byte
DrainDone_AnyByte(c) == TRUE

\* while (b != 0xD): the drain loop ends at a carriage return
DrainDone(c) == c = CR

\* columns of the cursor-left sequence of the redraw, 0 when none is sent
CursorLeft(o, p) == IF o + p > 0 THEN o + p ELSE 0

\* ExitOps with the two exit statuses exchanged
ExitOps_Swapped(c) == <<"restore", "newline", IF c = CtrlC THEN "exit1" ELSE "exit0">>

\* ExitOps leaving with status 0 whatever the byte
ExitOps_AlwaysZero(c) == <<"restore", "newline", "exit0">>

\* ctrl-c / ctrl-z: tcsetattr(oldt); fprintf("\n"); exit(b == 0x3 ? 0 : 1);
ExitOps(c) == <<"restore", "newline", IF c = CtrlC THEN "exit0" ELSE "exit1">>

\* ReturnOps without the tcsetattr
ReturnOps_NoRestore == <<"print", "return">>

\* end of the function: tcsetattr(oldt); fprintf(final line); return
ReturnOps == <<"restore", "print", "return">>

\* StripReturn that leaves the carriage return in the line
StripReturn_Keep(m, l) == Edit(m, l, 0, 0, {})

\* if (b == 0xD) { len--; buf[len] = 0; }
StripReturn(m, l) == Edit(Store(m, l - 1, NUL), l - 1, 0, 0, {l - 1})

\* ------------------------------------------------------------- actions
\* value of before when the last step erased nothing at the end of the line
NoErase == <<256>>

\* state at the first getchar(): buf[0] = 0, prompt printed, raw mode set
Init ==
    /\ blen \in 1..MaxBlen
    /\ history_cb \in BOOLEAN
    /\ \E j \in JunkBytes : buf = [i \in Mem |-> IF i = 0 THEN NUL ELSE j]
    /\ len = 0 /\ off = 0 /\ pad = 0
    /\ b = 0 /\ b2 = 0 /\ b3 = 0 /\ got = 0
    /\ pc = "read"
    /\ trace = <<"save", "raw">>
    /\ printed = 0 /\ moved = 0
    /\ wr = {0}
    /\ cbRes = "none"
    /\ nread = 0
    /\ ev = "start"
    /\ typed = <<>>
    /\ drawn = FALSE
    /\ crOff = 0
    /\ before = NoErase

\* value of typed once a byte other than a literal has been read
NotTyping == <<256>>

\* one getchar(): the model stops offering input after MaxReads bytes
GetChar == nread < MaxReads /\ nread' = nread + 1

\* the rest of an iteration after the switch: redraw, loop test, and when
\* the loop ends, the strip of the carriage return and the return
Finish(c, e) ==
    /\ drawn' = TRUE
    /\ off' = e.off
    /\ pad' = e.pad
    /\ printed' = strlen(e.buf)
    /\ moved' = CursorLeft(e.off, e.pad)
    /\ IF c # CR /\ LoopTest(e.len, blen)
       THEN /\ pc' = "read"
            /\ buf' = e.buf /\ len' = e.len /\ wr' = e.wr
            /\ UNCHANGED trace
       ELSE IF c = CR
       THEN /\ pc' = "returned"
            /\ len' = StripReturn(e.buf, e.len).len
            /\ buf' = StripReturn(e.buf, e.len).buf
            /\ wr' = e.wr \cup StripReturn(e.buf, e.len).wr
            /\ trace' = trace \o ReturnOps
       ELSE /\ pc' = "drain"
            /\ buf' = e.buf /\ len' = e.len /\ wr' = e.wr
            /\ UNCHANGED trace

\* case 0x3 / case 0x1a at the top of the loop
ReadCancel ==
    /\ pc = "read"
    /\ GetChar
    /\ ev' = "cancel" /\ typed' = NotTyping
    /\ drawn' = FALSE /\ crOff' = 0 /\ before' = NoErase
    /\ \E c \in TopBytes \cap {CtrlC, CtrlZ} :
        /\ b' = c /\ got' = c
        /\ trace' = trace \o ExitOps(c)
    /\ pc' = "exited"
    /\ wr' = {} /\ cbRes' = "none"
    /\ UNCHANGED <<buf, blen, history_cb, len, off, pad, b2, b3, printed, moved>>

\* case 0x1b: the escape introducer, b2 is read next
ReadEscape ==
    /\ pc = "read"
    /\ GetChar
    /\ ev' = "esc" /\ typed' = NotTyping
    /\ drawn' = FALSE /\ crOff' = 0 /\ before' = NoErase
    /\ ESC \in TopBytes
    /\ b' = ESC /\ got' = ESC
    /\ pc' = "esc2"
    /\ wr' = {} /\ cbRes' = "none"
    /\ UNCHANGED <<buf, blen, history_cb, len, off, pad, b2, b3, trace, printed, moved>>

\* b2 = getchar();
ReadB2 ==
    /\ pc = "esc2"
    /\ GetChar
    /\ ev' = "esc2" /\ typed' = NotTyping
    /\ drawn' = FALSE /\ crOff' = 0 /\ before' = NoErase
    /\ \E c \in Esc2Bytes : b2' = c /\ got' = c
    /\ pc' = "esc3"
    /\ wr' = {} /\ cbRes' = "none"
    /\ UNCHANGED <<buf, blen, history_cb, len, off, pad, b, b3, trace, printed, moved>>

\* b3 = getchar(); left arrow
KeyLeftEvent ==
    /\ pc = "esc3" /\ b2 = CSI
    /\ GetChar
    /\ ev' = "left" /\ typed' = NotTyping
    /\ crOff' = 0 /\ before' = NoErase
    /\ got' = KeyLeft
    /\ Finish(b, Edit(buf, len, MoveLeft(len, off), pad, {}))
    /\ b2' = 0 /\ b3' = 0 /\ cbRes' = "none"
    /\ UNCHANGED <<blen, history_cb, b>>

\* b3 = getchar(); right arrow
KeyRightEvent ==
    /\ pc = "esc3" /\ b2 = CSI
    /\ GetChar
    /\ ev' = "right" /\ typed' = NotTyping
    /\ crOff' = 0 /\ before' = NoErase
    /\ got' = KeyRight
    /\ Finish(b, Edit(buf, len, MoveRight(off), pad, {}))
    /\ b2' = 0 /\ b3' = 0 /\ cbRes' = "none"
    /\ UNCHANGED <<blen, history_cb, b>>

\* b3 = getchar(); up or down arrow with a callback: the callback either
\* leaves buf untouched or puts a terminated line shorter than blen in it
HistoryEvent ==
    /\ pc = "esc3" /\ b2 = CSI
    /\ GetChar
    /\ ev' = "history" /\ typed' = NotTyping
    /\ crOff' = 0 /\ before' = NoErase
    /\ history_cb
    /\ got' \in {KeyUp, KeyDown}
    /\ \/ /\ cbRes' = "untouched"
          /\ Finish(b, AfterHistory(buf))
       \/ /\ cbRes' = "filled"
          /\ \E h \in HistEntries :
                /\ Len(h) < blen
                /\ Finish(b, AfterHistory(Recall(buf, h)))
    /\ b2' = 0 /\ b3' = 0
    /\ UNCHANGED <<blen, history_cb, b>>

\* b3 = getchar(); up or down arrow without a callback
HistoryNoCallback ==
    /\ pc = "esc3" /\ b2 = CSI
    /\ GetChar
    /\ ev' = "nohistory" /\ typed' = NotTyping
    /\ crOff' = 0 /\ before' = NoErase
    /\ ~history_cb
    /\ got' \in {KeyUp, KeyDown}
    /\ Finish(b, NoCallback(buf, len, off, pad))
    /\ b2' = 0 /\ b3' = 0 /\ cbRes' = "none"
    /\ UNCHANGED <<blen, history_cb, b>>

\* b3 = getchar(); home, delete or end: one more byte is read
ReadB3Extended ==
    /\ pc = "esc3" /\ b2 = CSI
    /\ GetChar
    /\ ev' = "esc3" /\ typed' = NotTyping
    /\ drawn' = FALSE /\ crOff' = 0 /\ before' = NoErase
    /\ \E c \in Esc3Bytes \cap {KeyHome, KeyDelete, KeyEnd} : b3' = c /\ got' = c
    /\ pc' = "dummy"
    /\ wr' = {} /\ cbRes' = "none"
    /\ UNCHANGED <<buf, blen, history_cb, len, off, pad, b, b2, trace, printed, moved>>

\* b3 = getchar(); b2 is not 0x5b, or b3 is no recognised code
EscapeIgnored ==
    /\ pc = "esc3"
    /\ GetChar
    /\ ev' = "ignored" /\ typed' = NotTyping
    /\ crOff' = 0 /\ before' = NoErase
    /\ \E c \in Esc3Bytes :
        /\ b2 # CSI \/ c \notin {KeyLeft, KeyRight, KeyDown, KeyUp, KeyHome, KeyDelete, KeyEnd}
        /\ got' = c
    /\ Finish(b, Ignored(buf, len, off, pad))
    /\ b2' = 0 /\ b3' = 0 /\ cbRes' = "none"
    /\ UNCHANGED <<blen, history_cb, b>>

\* getchar(); /* dummy */ after home
HomeEvent ==
    /\ pc = "dummy" /\ b3 = KeyHome
    /\ GetChar
    /\ ev' = "home" /\ typed' = NotTyping
    /\ crOff' = 0 /\ before' = NoErase
    /\ got' \in DummyBytes
    /\ Finish(b, Edit(buf, len, MoveHome(len), pad, {}))
    /\ b2' = 0 /\ b3' = 0 /\ cbRes' = "none"
    /\ UNCHANGED <<blen, history_cb, b>>

\* getchar(); /* dummy */ after delete
DeleteEvent ==
    /\ pc = "dummy" /\ b3 = KeyDelete
    /\ GetChar
    /\ ev' = "delete" /\ typed' = NotTyping
    /\ crOff' = 0 /\ before' = NoErase
    /\ got' \in DummyBytes
    /\ Finish(b, EraseForward(buf, len, off, pad))
    /\ b2' = 0 /\ b3' = 0 /\ cbRes' = "none"
    /\ UNCHANGED <<blen, history_cb, b>>

\* getchar(); /* dummy */ after end
EndEvent ==
    /\ pc = "dummy" /\ b3 = KeyEnd
    /\ GetChar
    /\ ev' = "end" /\ typed' = NotTyping
    /\ crOff' = 0 /\ before' = NoErase
    /\ got' \in DummyBytes
    /\ Finish(b, Edit(buf, len, MoveEnd(len), pad, {}))
    /\ b2' = 0 /\ b3' = 0 /\ cbRes' = "none"
    /\ UNCHANGED <<blen, history_cb, b>>

\* case 0x7F
BackspaceEvent ==
    /\ pc = "read"
    /\ GetChar
    /\ ev' = "backspace" /\ typed' = NotTyping
    /\ crOff' = 0
    /\ before' = IF off = 0 /\ len > 0 THEN Content(buf, len) ELSE NoErase
    /\ DEL \in TopBytes
    /\ b' = DEL /\ got' = DEL
    /\ Finish(DEL, EraseBackward(buf, len, off, pad))
    /\ cbRes' = "none"
    /\ UNCHANGED <<blen, history_cb, b2, b3>>

\* case 0xD: off = 0; then falls through to the default case
ReturnEvent ==
    /\ pc = "read"
    /\ GetChar
    /\ ev' = "cr" /\ typed' = typed
    /\ crOff' = off /\ before' = NoErase
    /\ CR \in TopBytes
    /\ b' = CR /\ got' = CR
    /\ Finish(CR, Insert(buf, len, ReturnOff(off), pad, CR))
    /\ cbRes' = "none"
    /\ UNCHANGED <<blen, history_cb, b2, b3>>

\* default: a literal byte
LiteralEvent ==
    /\ pc = "read"
    /\ GetChar
    /\ ev' = "literal"
    /\ crOff' = 0
    /\ before' = IF ev = "backspace" THEN before ELSE NoErase
    /\ \E c \in Lit :
        /\ b' = c /\ got' = c
        /\ typed' = IF typed = NotTyping THEN NotTyping ELSE Append(typed, c)
        /\ Finish(c, Insert(buf, len, off, pad, c))
    /\ cbRes' = "none"
    /\ UNCHANGED <<blen, history_cb, b2, b3>>

\* while (b != 0xD) b = getchar(); then the end of the function
Drain ==
    /\ pc = "drain"
    /\ GetChar
    /\ ev' = "drain" /\ typed' = typed
    /\ drawn' = FALSE /\ crOff' = 0 /\ before' = NoErase
    /\ \E c \in TopBytes :
        /\ b' = c /\ got' = c
        /\ IF DrainDone(c)
           THEN pc' = "returned" /\ trace' = trace \o ReturnOps
           ELSE pc' = "drain" /\ UNCHANGED trace
    /\ wr' = {} /\ cbRes' = "none"
    /\ UNCHANGED <<buf, blen, history_cb, len, off, pad, b2, b3, printed, moved>>

Next ==
    \/ ReadCancel \/ ReadEscape \/ ReadB2
    \/ KeyLeftEvent \/ KeyRightEvent \/ HistoryEvent \/ HistoryNoCallback
    \/ ReadB3Extended \/ EscapeIgnored
    \/ HomeEvent \/ DeleteEvent \/ EndEvent
    \/ BackspaceEvent \/ ReturnEvent \/ LiteralEvent
    \/ Drain

Spec == Init /\ [][Next]_vars

\* ------------------------------------------------------------- claims
\* a step of the function read one more byte
Stepped == nread' = nread + 1

\* s without its k-th element
RemoveAt(s, k) == [j \in 1..(Len(s) - 1) |-> IF j < k THEN s[j] ELSE s[j + 1]]

\* s with c put in front of its k-th element
InsertAt(s, k, c) ==
    [j \in 1..(Len(s) + 1) |-> IF j < k THEN s[j] ELSE IF j = k THEN c ELSE s[j - 1]]

\* positions of trace holding one of the operations in S
TracePos(S) == {i \in DOMAIN trace : trace[i] \in S}

\* C1: n < blen - 1 literal bytes and then a carriage return: the function
\* returns with buf holding exactly those bytes in order, a terminator at
\* index n, and len = n.
C1_LiteralsReturned ==
    (pc = "returned" /\ typed # NotTyping /\ Len(typed) < blen - 1)
        => /\ Content(buf, Len(typed)) = typed
           /\ buf[Len(typed)] = NUL
           /\ len = Len(typed)

\* "A", "B", "A" and a carriage return were read and the call returned
C1_Witness ==
    pc = "returned" /\ typed = <<65, 66, 65>> /\ blen = 5 /\ len = 3

\* C2: after every iteration and at the return, buf holds a terminator at
\* some index below blen.
C2_TerminatedInBuffer ==
    pc \in {"read", "drain", "returned"} => \E i \in 0..(blen - 1) : buf[i] = NUL

\* C3: the cursor offset is within 0..len after any sequence of events.
C3_CursorInRange ==
    pc \in {"read", "drain", "returned"} => (0 <= off /\ off <= len)

\* C4: on every path that leaves the function the saved terminal attributes
\* are re-applied exactly once, before the return or the exit, and nothing
\* sets raw mode again; while the call is running they are not re-applied.
C4_RestoredOnceBeforeLeaving ==
    LET restores == TracePos({"restore"})
        leaves == TracePos({"return", "exit0", "exit1"})
        raws == TracePos({"raw"})
    IN  IF pc \in {"returned", "exited"}
        THEN /\ Cardinality(restores) = 1
             /\ leaves = {Len(trace)}
             /\ \A r \in restores : r < Len(trace) /\ \A w \in raws : w < r
        ELSE restores = {} /\ leaves = {}

\* the buffer filled up, the rest of the line was drained, the call returned
C4_Witness ==
    pc = "returned" /\ ev = "drain" /\ len = blen /\ trace[Len(trace)] = "return"

\* C5 (as claimed): a cancel byte read at any point of the call makes the
\* process exit.
C5_CancelAnywhereExits ==
    [][(Stepped /\ got' = CtrlC) => pc' = "exited"]_vars

\* C5 (amended): a cancel byte read at the top of the edit loop makes the
\* process exit with status 0 and nothing is returned, whereas a cancel byte
\* read as a continuation byte of an escape sequence or by the drain loop
\* does not end the process; nothing runs after the exit.
C5_CancelAtTopExits ==
    [][/\ pc # "exited"
       /\ (Stepped /\ got' = CtrlC) =>
            IF pc = "read"
            THEN /\ pc' = "exited"
                 /\ trace'[Len(trace')] = "exit0"
                 /\ \A i \in DOMAIN trace' : trace'[i] # "return"
            ELSE pc' # "exited"]_vars

\* two bytes were typed and then the cancel byte ended the process
C5_Witness ==
    pc = "exited" /\ b = CtrlC /\ len = 2 /\ trace[Len(trace)] = "exit0"

\* C6: with the cursor off positions left of the end (0 <= off <= len), a
\* literal byte lands at index len - off, the bytes before it and after it
\* keep their order, len grows by one, off is unchanged and pad becomes 0.
C6_InsertAtCursor ==
    [][(pc = "read" /\ Stepped /\ ev' = "literal" /\ 0 <= off /\ off <= len) =>
            /\ Content(buf', len + 1) = InsertAt(Content(buf, len), len - off + 1, got')
            /\ len' = len + 1
            /\ off' = off
            /\ pad' = 0]_vars

\* "A", "A", "B", left, left, "B": the line is "ABAB" with the cursor two left
C6_Witness ==
    /\ pc = "read" /\ ev = "literal" /\ got = 66
    /\ len = 4 /\ off = 2 /\ pad = 0
    /\ Content(buf, 4) = <<65, 66, 65, 66>>

\* C7: erase-backward removes exactly the character before the cursor, at
\* index len - off - 1, keeps the others in order, decrements len, keeps off
\* and increments pad; with len - off = 0 it changes nothing.
C7_EraseBackward ==
    [][(pc = "read" /\ Stepped /\ ev' = "backspace") =>
            IF len - off = 0
            THEN buf' = buf /\ len' = len /\ off' = off /\ pad' = pad
            ELSE /\ (len - off - 1) \in 0..(len - 1)
                 /\ Content(buf', len - 1) = RemoveAt(Content(buf, len), len - off)
                 /\ len' = len - 1
                 /\ off' = off
                 /\ pad' = pad + 1]_vars

\* C8: an up or down key on which the callback leaves buf untouched does
\* not change the logical line: same len, same first len bytes.
C8_UntouchedHistoryKeepsLine ==
    [][(Stepped /\ ev' = "history" /\ cbRes' = "untouched") =>
            /\ len' = len
            /\ Content(buf', len) = Content(buf, len)]_vars

\* C9: without a callback an up or down arrow changes neither buf nor len,
\* off or pad.
C9_HistoryNoCallbackNoOp ==
    [][(Stepped /\ ev' = "nohistory") =>
            /\ buf' = buf /\ len' = len /\ off' = off /\ pad' = pad
            /\ pc' = "read"]_vars

\* an arrow-up was read without a callback, after typing, moving and erasing
C9_Witness ==
    /\ ~history_cb /\ ev = "nohistory" /\ got = KeyUp
    /\ len = 2 /\ off = 1 /\ pad = 1

\* C10: home sets off to len, end sets off to 0.
C10_HomeEnd ==
    [][/\ (Stepped /\ ev' = "home") => off' = len'
       /\ (Stepped /\ ev' = "end") => off' = 0]_vars

\* C11: after every event that leaves the edit loop running,
\* 0 <= len <= blen - 2 (stated for the buffers that can hold a character,
\* blen >= 2).
C11_LengthLeavesHeadroom ==
    (pc = "read" /\ ev # "start" /\ blen >= 2) => (0 <= len /\ len <= blen - 2)

\* C12: every index of buf the function writes is within 0..blen-1.
C12_WritesInsideBuffer ==
    wr \subseteq 0..(blen - 1)

\* C13: erase-forward removes exactly the character at the cursor, at index
\* len - off, keeps the others in order, decrements len and off and
\* increments pad; with off = 0 it changes nothing.
C13_EraseForward ==
    [][(pc = "dummy" /\ Stepped /\ ev' = "delete") =>
            IF off = 0
            THEN buf' = buf /\ len' = len /\ off' = off /\ pad' = pad
            ELSE /\ (len - off) \in 0..(len - 1)
                 /\ Content(buf', len - 1) = RemoveAt(Content(buf, len), len - off + 1)
                 /\ len' = len - 1
                 /\ off' = off - 1
                 /\ pad' = pad + 1]_vars

\* C14: after the redraw that follows an event, the characters printed after
\* the prompt minus the columns moved left equal the number of characters
\* before the cursor, len - off, and that column is not left of column 0.
C14_VisualCursorAtEditPosition ==
    (pc = "read" /\ drawn) =>
        /\ printed - moved = len - off
        /\ printed - moved >= 0

\* buf, len, off and pad are the same after the step
SameLine == buf' = buf /\ len' = len /\ off' = off /\ pad' = pad

\* third bytes of the escape sequences the function recognises
Recognised == {KeyLeft, KeyRight, KeyDown, KeyUp, KeyHome, KeyDelete, KeyEnd}

\* C15: a carriage return read at the top of the loop ends the loop whatever
\* off is: the call returns the whole line (len and the first len bytes as
\* before, terminated at len, no carriage return in it), and no byte is read
\* after it.
C15_ReturnEndsLoop ==
    [][/\ pc # "returned"
       /\ (pc = "read" /\ Stepped /\ got' = CR) =>
            /\ pc' = "returned"
            /\ trace'[Len(trace')] = "return"
            /\ len' = len
            /\ Content(buf', len) = Content(buf, len)
            /\ buf'[len] = NUL
            /\ \A i \in 0..len : buf'[i] # CR]_vars

\* "A", "B", "A", left, left, carriage return: "ABA" is returned
C15_Witness ==
    /\ pc = "returned" /\ ev = "cr" /\ crOff = 2
    /\ len = 3 /\ Content(buf, 3) = <<65, 66, 65>> /\ buf[3] = NUL

\* C16: the loop stops without a carriage return only with the buffer at
\* capacity (or len negative); every byte read after that is discarded
\* without a change to buf, up to and including the next carriage return,
\* and only then the terminal is restored and the call returns.
C16_DrainToNextReturn ==
    [][/\ (pc # "drain" /\ pc' = "drain") => (got' # CR /\ (len' >= blen \/ len' < 0))
       /\ (pc = "drain" /\ Stepped) =>
            /\ SameLine
            /\ IF got' = CR
               THEN pc' = "returned" /\ trace' = trace \o <<"restore", "print", "return">>
               ELSE pc' = "drain" /\ trace' = trace]_vars

\* blen = 3: "A", "A", "A" fill the buffer, two bytes are discarded, the
\* carriage return ends the call
C16_Witness ==
    /\ pc = "returned" /\ ev = "drain" /\ blen = 3 /\ len = 3
    /\ typed = <<65, 65, 65>> /\ nread = 6

\* C17: an escape introducer is followed by exactly two more reads, and by a
\* third for home, delete and end; none of these bytes is dispatched as an
\* event of its own, and when b2 is not 0x5B or b3 is not recognised, buf,
\* len, off and pad are unchanged.
C17_EscapeSequences ==
    [][/\ (pc = "read" /\ Stepped /\ got' = ESC) => (pc' = "esc2" /\ SameLine)
       /\ (pc = "esc2" /\ Stepped) => (pc' = "esc3" /\ SameLine)
       /\ (pc = "esc3" /\ Stepped) =>
            IF b2 = CSI /\ got' \in {KeyHome, KeyDelete, KeyEnd}
            THEN pc' = "dummy" /\ SameLine
            ELSE /\ pc' = "read"
                 /\ (b2 # CSI \/ got' \notin Recognised) => SameLine
       /\ (pc = "dummy" /\ Stepped) => pc' = "read"
       /\ (pc \in {"esc2", "esc3", "dummy"} /\ Stepped) =>
            /\ ev' \notin {"literal", "cr", "backspace", "cancel"}
            /\ ev' # "history" => len' <= len]_vars

\* "A", "B", left, then ESC "[" and a carriage return as the third byte
C17_Witness ==
    /\ pc = "read" /\ ev = "ignored" /\ got = CR
    /\ len = 2 /\ off = 1 /\ nread = 8

\* C18: 0x03 or 0x1A at the top of the loop: the terminal is restored, a
\* newline is printed and the process exits with status 0 or 1, with no
\* redraw, no change of the line, no return, and nothing after the exit.
C18_CancelSuspendExit ==
    [][/\ pc # "exited"
       /\ (pc = "read" /\ Stepped /\ got' \in {CtrlC, CtrlZ}) =>
            /\ pc' = "exited"
            /\ trace' = trace \o <<"restore", "newline",
                                   IF got' = CtrlC THEN "exit0" ELSE "exit1">>
            /\ SameLine
            /\ ~drawn' /\ printed' = printed /\ moved' = moved /\ wr' = {}]_vars

\* "A", "B", left, then 0x1A: the process exited with status 1
C18_Witness ==
    /\ pc = "exited" /\ b = CtrlZ /\ trace[Len(trace)] = "exit1"
    /\ len = 2 /\ off = 1

\* C19: with the cursor at the end, an erase-backward directly followed by
\* the erased character typed again gives back the line and the length of
\* before the erase.
C19_EraseRetypeRoundTrip ==
    (ev = "literal" /\ before # NoErase /\ got = before[Len(before)]) =>
        /\ len = Len(before)
        /\ Content(buf, len) = before

\* "A", "B", erase-backward, "B"
C19_Witness ==
    ev = "literal" /\ before = <<65, 66>> /\ got = 66 /\ len = 2 /\ off = 0

\* C20: after every event buf[len..len+pad-1] are blanks and the first
\* terminator of buf is at index len + pad.
C20_BufferAgreesWithCounters ==
    (pc \in {"read", "drain", "returned"} /\ ev # "start") =>
        /\ len >= 0
        /\ \A i \in len..(len + pad - 1) : buf[i] = SPACE
        /\ strlen(buf) = len + pad

====
